---- MODULE Spec2Model ----
(***************************************************************************)
(* The three utility scripts of the repository as one state machine:       *)
(*   stamp.py       pads a boot image to numblocks*512 bytes and checks    *)
(*                  the 0x55 0xaa signature at offsets 510 and 511;        *)
(*   xxd.py         prints a file as a C array, 12 entries per line;       *)
(*   mem_analyze.py prints six fields of /proc/meminfo.                    *)
(* A behaviour is one invocation of one script (stamp.py may be invoked    *)
(* again on the file it left behind).  Each statement of a script is one   *)
(* action; pc is the statement about to run.                               *)
(*                                                                         *)
(* Text is a sequence of symbols.  A symbol is a one-character string or,  *)
(* for words that no script ever looks inside (field names, the fixed      *)
(* parts of xxd.py's output), the whole word.                              *)
(***************************************************************************)
EXTENDS Integers, Sequences, FiniteSets, TLC

VARIABLES
    prog,       \* which script runs: "stamp", "xxd" or "mem"
    pc,         \* the statement about to run; "exit" when the process ended
    status,     \* "running", "ok", or the name of the fatal error
    argv,       \* sys.argv, the script's name first
    exists,     \* whether the file the script names can be opened
    file,       \* the bytes of the file named on the command line
    meminfoFile,\* the text of /proc/meminfo
    nopen,      \* number of file objects currently open
    stdout,     \* text written to standard output
    stderr,     \* text written to standard error
    msg,        \* the arguments formatted into the oversize error message
    run,        \* number of the current invocation (stamp.py)
    done,       \* the statuses of the finished invocations, in order
    before,     \* the bytes of the file when the current invocation began
    sz, left, sb, d,          \* stamp.py's variables
    name, data, i,            \* xxd.py's variables
    lines, meminfo, fieldIdx  \* mem_analyze.py's variables

vars == <<prog, pc, status, argv, exists, file, meminfoFile, nopen, stdout,
          stderr, msg, run, done, before, sz, left, sb, d, name, data, i,
          lines, meminfo, fieldIdx>>

envVars   == <<prog, argv, exists, meminfoFile>>
histVars  == <<run, done, before>>
stampVars == <<sz, left, sb, d, msg>>
xxdVars   == <<name, data, i>>
memVars   == <<lines, meminfo, fieldIdx>>
outVars   == <<stdout, stderr>>

----------------------------------------------------------------------------
\* Bounds of the model.

\* Image sizes are taken within SizeSlack bytes of each boundary of stamp.py.
SizeSlack == 2
\* stamp.py is invoked at most MaxRuns times on the same file.
MaxRuns == 2
\* xxd.py is given files of at most MaxData bytes ...
MaxData == 25
\* ... and at most MaxArgs command-line arguments.
MaxArgs == 2
\* /proc/meminfo holds at most MaxLines lines ...
MaxLines == 2
\* ... of at most MaxColons colons each.
MaxColons == 2

----------------------------------------------------------------------------
\* stamp.py

numblocks == 10
BlockSize == 512
SigLo == 85     \* 0x55
SigHi == 170    \* 0xaa

Min(a, b) == IF a < b THEN a ELSE b

\* Mutant of Zeros: one byte short.
ZerosShort(n) == [k \in 1..(n - 1) |-> 0]

\* b"\x00" * n: n zero bytes, none when n <= 0.
Zeros(n) == [k \in 1..n |-> 0]

\* f.read(n) on a freshly opened file: its first n bytes, or all of them.
ReadPrefix(bytes, n) == SubSeq(bytes, 1, Min(n, Len(bytes)))

\* '%d' % x for a non-negative float x held as the numerator x*512:
\* the integer part.  (sz/512 is exact in binary floating point.)
FormatD(num) == num \div BlockSize

\* Mutant of Oversize: an image of exactly numblocks*512 bytes is refused too.
OversizeOrFull(l) == l <= 0

\* Mutant of Oversize: up to one block too many is let through.
OversizeByABlock(l) == l < -BlockSize

\* if left < 0:
Oversize(l) == l < 0

\* Mutant of RequiredBlocks: the partial last block is not counted.
RequiredBlocksFloor(size) == size

\* sb = sz/512; if sz % 512 != 0: sb += 1
\* sb is a float; it is held as the numerator of sb = num/512.
RequiredBlocks(size) == IF size % BlockSize # 0 THEN size + BlockSize ELSE size

Fail(err) == /\ status' = err
             /\ pc' = "exit"

\* fn = sys.argv[1]
StampArgv ==
    /\ prog = "stamp" /\ pc = "argv"
    /\ IF Len(argv) < 2
       THEN Fail("IndexError")
       ELSE pc' = "getsize" /\ UNCHANGED status
    /\ UNCHANGED <<envVars, histVars, stampVars, xxdVars, memVars, outVars,
                   file, nopen>>

\* sz = os.path.getsize(fn); left = numblocks*512 - sz
StampGetsize ==
    /\ prog = "stamp" /\ pc = "getsize"
    /\ IF ~exists
       THEN Fail("FileNotFoundError") /\ UNCHANGED <<sz, left>>
       ELSE /\ sz' = Len(file)
            /\ left' = numblocks * BlockSize - Len(file)
            /\ pc' = "check"
            /\ UNCHANGED status
    /\ UNCHANGED <<envVars, histVars, sb, d, msg, xxdVars, memVars, outVars,
                   file, nopen>>

\* if left < 0: ...; s = '... (is %d, should be %d)' % (numblocks, sb)
\*              raise ValueError(s)
StampCheck ==
    /\ prog = "stamp" /\ pc = "check"
    /\ IF Oversize(left)
       THEN /\ sb' = RequiredBlocks(sz)
            /\ msg' = [is |-> numblocks, should |-> FormatD(sb')]
            /\ Fail("ValueError: bigger than numblocks")
       ELSE /\ pc' = "open_ab"
            /\ UNCHANGED <<sb, msg, status>>
    /\ UNCHANGED <<envVars, histVars, sz, left, d, xxdVars, memVars, outVars,
                   file, nopen>>

\* with open(fn, 'ab') as f:
StampOpenAppend ==
    /\ prog = "stamp" /\ pc = "open_ab"
    /\ nopen' = nopen + 1
    /\ pc' = "write"
    /\ UNCHANGED <<envVars, histVars, stampVars, xxdVars, memVars, outVars,
                   file, status>>

\* f.write(b"\x00" * left)
StampWrite ==
    /\ prog = "stamp" /\ pc = "write"
    /\ file' = file \o Zeros(left)
    /\ pc' = "close_ab"
    /\ UNCHANGED <<envVars, histVars, stampVars, xxdVars, memVars, outVars,
                   nopen, status>>

\* Mutant of StampCloseAppend: the file opened for appending is not closed.
StampLeakAppend ==
    /\ prog = "stamp" /\ pc = "close_ab"
    /\ pc' = "open_rb"
    /\ UNCHANGED <<envVars, histVars, stampVars, xxdVars, memVars, outVars,
                   file, status, nopen>>

\* leaving the first with block closes f
StampCloseAppend ==
    /\ prog = "stamp" /\ pc = "close_ab"
    /\ nopen' = nopen - 1
    /\ pc' = "open_rb"
    /\ UNCHANGED <<envVars, histVars, stampVars, xxdVars, memVars, outVars,
                   file, status>>

\* with open(fn, 'rb') as f:
StampOpenRead ==
    /\ prog = "stamp" /\ pc = "open_rb"
    /\ nopen' = nopen + 1
    /\ pc' = "read"
    /\ UNCHANGED <<envVars, histVars, stampVars, xxdVars, memVars, outVars,
                   file, status>>

\* d = f.read(512)
StampRead ==
    /\ prog = "stamp" /\ pc = "read"
    /\ d' = ReadPrefix(file, BlockSize)
    /\ pc' = "close_rb"
    /\ UNCHANGED <<envVars, histVars, sz, left, sb, msg, xxdVars, memVars,
                   outVars, file, nopen, status>>

\* leaving the second with block closes f
StampCloseRead ==
    /\ prog = "stamp" /\ pc = "close_rb"
    /\ nopen' = nopen - 1
    /\ pc' = "sig"
    /\ UNCHANGED <<envVars, histVars, stampVars, xxdVars, memVars, outVars,
                   file, status>>

\* if d[510] != 0x55 or d[511] != 0xaa: raise ValueError('sig is wrong! ...')
StampSig ==
    /\ prog = "stamp" /\ pc = "sig"
    /\ IF Len(d) < 511
       THEN Fail("IndexError")
       ELSE IF d[511] # SigLo
       THEN Fail("ValueError: sig is wrong")
       ELSE IF Len(d) < 512
       THEN Fail("IndexError")
       ELSE IF d[512] # SigHi
       THEN Fail("ValueError: sig is wrong")
       ELSE status' = "ok" /\ pc' = "exit"
    /\ UNCHANGED <<envVars, histVars, stampVars, xxdVars, memVars, outVars,
                   file, nopen>>

\* The build invokes stamp.py again on the file the last invocation left.
StampRerun ==
    /\ prog = "stamp" /\ pc = "exit"
    /\ run < MaxRuns
    /\ run' = run + 1
    /\ done' = Append(done, status)
    /\ before' = file
    /\ pc' = "argv"
    /\ status' = "running"
    /\ sz' = 0 /\ left' = 0 /\ sb' = 0 /\ d' = <<>>
    /\ msg' = [is |-> 0, should |-> 0]
    /\ UNCHANGED <<envVars, xxdVars, memVars, outVars, file, nopen>>

\* The images stamp.py is run on: S bytes, none of them zero except where
\* the signature bytes are chosen wrong.
Filler(k) == (k % 253) + 1

Image(S, b510, b511) ==
    [k \in 1..S |-> IF k = 511 THEN b510
                    ELSE IF k = 512 THEN b511
                    ELSE Filler(k)]

Around(n) == {s \in (n - SizeSlack)..(n + SizeSlack) : s >= 0}

ImageSizes == Around(0) \cup Around(511) \cup Around(numblocks * BlockSize)
              \cup Around((numblocks + 1) * BlockSize)

InitStamp ==
    /\ prog = "stamp" /\ pc = "argv" /\ status = "running"
    /\ argv \in {<<"stamp.py">>, <<"stamp.py", "boot">>}
    /\ exists \in BOOLEAN
    /\ \E S \in ImageSizes, b510 \in {SigLo, 0}, b511 \in {SigHi, SigLo} :
          file = Image(S, b510, b511)
    /\ before = file
    /\ meminfoFile = <<>>
    /\ nopen = 0 /\ stdout = <<>> /\ stderr = <<>>
    /\ msg = [is |-> 0, should |-> 0]
    /\ run = 1 /\ done = <<>>
    /\ sz = 0 /\ left = 0 /\ sb = 0 /\ d = <<>>
    /\ name = <<>> /\ data = <<>> /\ i = 0
    /\ lines = <<>> /\ meminfo = <<>> /\ fieldIdx = 1

NextStamp ==
    \/ StampArgv \/ StampGetsize \/ StampCheck
    \/ StampOpenAppend \/ StampWrite \/ StampCloseAppend
    \/ StampOpenRead \/ StampRead \/ StampCloseRead
    \/ StampSig \/ StampRerun

SpecStamp == InitStamp /\ [][NextStamp]_vars

\* The image is named on the command line and can be opened.
StampOnImage == prog = "stamp" /\ Len(argv) >= 2 /\ exists

ErrBig == "ValueError: bigger than numblocks"
ErrSig == "ValueError: sig is wrong"

\* C1: an invocation of stamp.py on an image of S <= 5120 bytes ends with
\* the file exactly 5120 bytes long, its first S bytes the original ones and
\* the rest zero; it ends successfully if and only if the byte at offset 510
\* is 0x55 and the byte at offset 511 is 0xaa, and with the signature error
\* otherwise.
C1_PaddedAndChecked ==
    (StampOnImage /\ pc = "exit" /\ Len(before) <= 5120) =>
        /\ Len(file) = 5120
        /\ \A k \in 1..Len(before) : file[k] = before[k]
        /\ \A k \in (Len(before) + 1)..5120 : file[k] = 0
        /\ status \in {"ok", ErrSig}
        /\ (status = "ok") <=> (file[510 + 1] = 85 /\ file[511 + 1] = 170)

\* C1 witnesses: a shorter image was padded and passed the signature check.
C1_Witness ==
    /\ StampOnImage /\ pc = "exit" /\ status = "ok" /\ run = 1
    /\ Len(before) >= 512 /\ Len(before) < 5120 /\ Len(file) = 5120

\* C2: on an image of more than 5120 bytes stamp.py never opens or writes
\* the file and never reaches the signature check: the file stays as it
\* was and the invocation ends with the oversize error.
C2_OversizeUntouched ==
    (StampOnImage /\ Len(before) > 5120) =>
        /\ file = before
        /\ nopen = 0
        /\ pc \in {"argv", "getsize", "check", "exit"}
        /\ (pc = "exit" => status = ErrBig)

C2_Witness ==
    /\ StampOnImage /\ Len(before) > 5120 /\ pc = "exit" /\ status = ErrBig

\* C3 as stated: after a successful invocation, the next invocation on the
\* resulting file sees left negative and ends with the oversize error.
C3_SecondRunFails ==
    (StampOnImage /\ run >= 2 /\ done[run - 1] = "ok" /\ pc = "exit") =>
        (left < 0 /\ status = ErrBig)

\* C3 amended: after a successful invocation, the next invocation on the
\* resulting file sees left = 0, appends nothing, and succeeds again with
\* the file unchanged.
C3_SecondRunSucceeds ==
    (StampOnImage /\ run >= 2 /\ done[run - 1] = "ok" /\ pc = "exit") =>
        (left = 0 /\ status = "ok" /\ file = before)

C3_Witness ==
    /\ StampOnImage /\ run = 2 /\ done[1] = "ok" /\ pc = "exit"
    /\ Len(before) = 5120

\* The least n with n blocks of 512 bytes holding S bytes.
CeilBlocks(S) == CHOOSE n \in 0..S : n * 512 >= S /\ (n - 1) * 512 < S

\* C9: the block count the oversize error reports as required is the
\* ceiling of S/512: S/512 when S is a multiple of 512, floor(S/512)+1
\* otherwise; it is greater than 10.
C9_ReportedBlocks ==
    (StampOnImage /\ pc = "exit" /\ status = ErrBig) =>
        /\ msg.should = CeilBlocks(Len(before))
        /\ (Len(before) % 512 = 0 => msg.should * 512 = Len(before))
        /\ (Len(before) % 512 # 0 => msg.should = (Len(before) \div 512) + 1)
        /\ msg.should > 10

\* C9 witness: an oversize image whose last block is partial.
C9_Witness ==
    /\ StampOnImage /\ pc = "exit" /\ status = ErrBig
    /\ Len(before) % 512 # 0 /\ msg.should = 11

----------------------------------------------------------------------------
\* xxd.py

PerLine == 12

HexDigits == <<"0", "1", "2", "3", "4", "5", "6", "7",
               "8", "9", "a", "b", "c", "d", "e", "f">>

\* Mutant of Hex2: "{b:x}", no zero padding.
Hex2NoPad(b) ==
    IF b < 16 THEN <<HexDigits[b + 1]>>
    ELSE <<HexDigits[(b \div 16) + 1], HexDigits[(b % 16) + 1]>>

\* f"{b:02x}" for a byte b
Hex2(b) == <<HexDigits[(b \div 16) + 1], HexDigits[(b % 16) + 1]>>

\* f"{n}" for an integer n >= 0
RECURSIVE Dec(_)
Dec(n) == IF n < 10 THEN <<HexDigits[n + 1]>>
          ELSE Dec(n \div 10) \o <<HexDigits[(n % 10) + 1]>>

\* s.replace(a, b) for one-character a and b
Replace(s, a, b) == [k \in 1..Len(s) |-> IF s[k] = a THEN b ELSE s[k]]

\* Path(path).name for a path that does not end in a slash
RECURSIVE Basename(_)
Basename(p) ==
    IF \E k \in 1..Len(p) : p[k] = "/"
    THEN Basename(Tail(p))
    ELSE p

\* Mutant of WrongArgCount: only a missing argument is refused.
TooFewArgs(a) == Len(a) < 2

\* if len(sys.argv) != 2:
WrongArgCount(a) == Len(a) # 2

\* Mutant of XxdCheckArgs: the usage message goes to standard output.
XxdCheckArgsStdout ==
    /\ prog = "xxd" /\ pc = "args"
    /\ IF WrongArgCount(argv)
       THEN /\ stdout' = stdout \o <<"usage: xxd.py <file>", "\n">>
            /\ Fail("SystemExit: 1")
            /\ UNCHANGED stderr
       ELSE /\ pc' = "name"
            /\ UNCHANGED <<outVars, status>>
    /\ UNCHANGED <<envVars, histVars, stampVars, xxdVars, memVars, file, nopen>>

\* if len(sys.argv) != 2: sys.stderr.write("usage: ..."); sys.exit(1)
XxdCheckArgs ==
    /\ prog = "xxd" /\ pc = "args"
    /\ IF WrongArgCount(argv)
       THEN /\ stderr' = stderr \o <<"usage: xxd.py <file>", "\n">>
            /\ Fail("SystemExit: 1")
            /\ UNCHANGED stdout
       ELSE /\ pc' = "name"
            /\ UNCHANGED <<outVars, status>>
    /\ UNCHANGED <<envVars, histVars, stampVars, xxdVars, memVars, file, nopen>>

\* path = sys.argv[1]; name = Path(path).name.replace('-', '_').replace('.', '_')
XxdName ==
    /\ prog = "xxd" /\ pc = "name"
    /\ name' = Replace(Replace(Basename(argv[2]), "-", "_"), ".", "_")
    /\ pc' = "open"
    /\ UNCHANGED <<envVars, histVars, stampVars, data, i, memVars, outVars,
                   file, nopen, status>>

\* with open(path, 'rb') as f:
XxdOpen ==
    /\ prog = "xxd" /\ pc = "open"
    /\ IF ~exists
       THEN Fail("FileNotFoundError") /\ UNCHANGED nopen
       ELSE nopen' = nopen + 1 /\ pc' = "read" /\ UNCHANGED status
    /\ UNCHANGED <<envVars, histVars, stampVars, xxdVars, memVars, outVars,
                   file>>

\* data = f.read()
XxdRead ==
    /\ prog = "xxd" /\ pc = "read"
    /\ data' = file
    /\ pc' = "close"
    /\ UNCHANGED <<envVars, histVars, stampVars, name, i, memVars, outVars,
                   file, nopen, status>>

\* leaving the with block closes f
XxdClose ==
    /\ prog = "xxd" /\ pc = "close"
    /\ nopen' = nopen - 1
    /\ pc' = "header"
    /\ UNCHANGED <<envVars, histVars, stampVars, xxdVars, memVars, outVars,
                   file, status>>

\* print(f"unsigned char {name}[] = {{")
XxdHeader ==
    /\ prog = "xxd" /\ pc = "header"
    /\ stdout' = stdout \o <<"unsigned char ">> \o name \o <<"[] = {", "\n">>
    /\ i' = 0
    /\ pc' = "loop"
    /\ UNCHANGED <<envVars, histVars, stampVars, name, data, memVars, stderr,
                   file, nopen, status>>

\* end = "\n" if (i + 1) % 12 == 0 else ""; sep = " " if i % 12 == 0 else ""
\* print(f"{sep}0x{b:02x},", end=end)
Entry(idx, b) ==
    (IF idx % PerLine = 0 THEN <<" ">> ELSE <<>>)
    \o <<"0", "x">> \o Hex2(b) \o <<",">>
    \o (IF (idx + 1) % PerLine = 0 THEN <<"\n">> ELSE <<>>)

\* for i, b in enumerate(data): one iteration
XxdLoop ==
    /\ prog = "xxd" /\ pc = "loop"
    /\ i < Len(data)
    /\ stdout' = stdout \o Entry(i, data[i + 1])
    /\ i' = i + 1
    /\ UNCHANGED <<envVars, histVars, stampVars, name, data, memVars, stderr,
                   file, nopen, status, pc>>

\* the loop is over; if len(data) % 12 != 0: print()
XxdBreak ==
    /\ prog = "xxd" /\ pc = "loop"
    /\ i = Len(data)
    /\ stdout' = IF Len(data) % PerLine # 0 THEN stdout \o <<"\n">> ELSE stdout
    /\ pc' = "brace"
    /\ UNCHANGED <<envVars, histVars, stampVars, xxdVars, memVars, stderr,
                   file, nopen, status>>

\* print("};")
XxdBrace ==
    /\ prog = "xxd" /\ pc = "brace"
    /\ stdout' = stdout \o <<"};", "\n">>
    /\ pc' = "len"
    /\ UNCHANGED <<envVars, histVars, stampVars, xxdVars, memVars, stderr,
                   file, nopen, status>>

\* print(f"unsigned int {name}_len = {len(data)};") and the script ends
XxdLen ==
    /\ prog = "xxd" /\ pc = "len"
    /\ stdout' = stdout \o <<"unsigned int ">> \o name \o <<"_len = ">>
                        \o Dec(Len(data)) \o <<";", "\n">>
    /\ status' = "ok"
    /\ pc' = "exit"
    /\ UNCHANGED <<envVars, histVars, stampVars, xxdVars, memVars, stderr,
                   file, nopen>>

\* The inputs of xxd.py.
PathSet == {<<"k">>, <<"a", "-", "b", ".", "c">>,
            <<"d", ".", "e", "/", "f", ".", "o">>}

ArgvSet(script) ==
    {<<script>> \o a : a \in UNION {[1..n -> PathSet] : n \in 0..MaxArgs}}

Bytes(L, seed, step) == [k \in 1..L |-> (seed + (k - 1) * step) % 256]

DataSet == {Bytes(L, seed, step) : L \in 0..MaxData, seed \in {0, 9, 250},
                                   step \in {1, 17}}

InitXxd ==
    /\ prog = "xxd" /\ pc = "args" /\ status = "running"
    /\ argv \in ArgvSet("xxd.py")
    /\ exists \in BOOLEAN
    /\ file \in (IF exists THEN DataSet ELSE {<<>>})
    /\ before = file
    /\ meminfoFile = <<>>
    /\ nopen = 0 /\ stdout = <<>> /\ stderr = <<>>
    /\ msg = [is |-> 0, should |-> 0]
    /\ run = 1 /\ done = <<>>
    /\ sz = 0 /\ left = 0 /\ sb = 0 /\ d = <<>>
    /\ name = <<>> /\ data = <<>> /\ i = 0
    /\ lines = <<>> /\ meminfo = <<>> /\ fieldIdx = 1

NextXxd ==
    \/ XxdCheckArgs \/ XxdName \/ XxdOpen \/ XxdRead \/ XxdClose
    \/ XxdHeader \/ XxdLoop \/ XxdBreak \/ XxdBrace \/ XxdLen

SpecXxd == InitXxd /\ [][NextXxd]_vars

\* The first position of symbol c in text t (0 when there is none).
FirstPos(t, c) ==
    IF \E k \in 1..Len(t) : t[k] = c
    THEN CHOOSE k \in 1..Len(t) : t[k] = c /\ \A j \in 1..(k - 1) : t[j] # c
    ELSE 0

\* The number of positions of t holding symbol c.
Count(t, c) == Cardinality({k \in 1..Len(t) : t[k] = c})

\* The value of a lowercase hexadecimal digit.
HexValue == [c \in {"0", "1", "2", "3", "4", "5", "6", "7", "8", "9",
                    "a", "b", "c", "d", "e", "f"} |->
             CASE c = "0" -> 0  [] c = "1" -> 1  [] c = "2" -> 2
               [] c = "3" -> 3  [] c = "4" -> 4  [] c = "5" -> 5
               [] c = "6" -> 6  [] c = "7" -> 7  [] c = "8" -> 8
               [] c = "9" -> 9  [] c = "a" -> 10 [] c = "b" -> 11
               [] c = "c" -> 12 [] c = "d" -> 13 [] c = "e" -> 14
               [] c = "f" -> 15]

DecDigits == {"0", "1", "2", "3", "4", "5", "6", "7", "8", "9"}

\* The number a decimal numeral denotes.
RECURSIVE DecValue(_)
DecValue(t) ==
    IF t = <<>> THEN 0
    ELSE 10 * DecValue(SubSeq(t, 1, Len(t) - 1)) + HexValue[t[Len(t)]]

\* The array body of xxd.py's output: what lies between the end of the
\* header line and the closing "};".
ArrayBody == SubSeq(stdout, FirstPos(stdout, "\n") + 1,
                    FirstPos(stdout, "};") - 1)

\* The body without its blanks and line ends.
IsInk(c) == c \notin {" ", "\n"}
BodyInk == SelectSeq(ArrayBody, IsInk)

\* The last line of xxd.py's output, between "_len = " and ";".
LenNumeral == SubSeq(stdout, FirstPos(stdout, "_len = ") + 1,
                     FirstPos(stdout, ";") - 1)

\* The greatest element of a set of naturals (0 for the empty set).
Greatest(S) == IF S = {} THEN 0 ELSE CHOOSE m \in S : \A x \in S : x <= m

\* No line of text t holds more than n commas: up to any position, at most
\* n commas follow the last line end.
LinesHoldAtMost(t, n) ==
    \A a \in 1..Len(t) :
        LET nl == Greatest({q \in 1..a : t[q] = "\n"}) IN
        Cardinality({q \in (nl + 1)..a : t[q] = ","}) <= n

\* C4: when xxd.py ends successfully on a file of L bytes, the array body
\* holds exactly L entries, the k-th being "0x" and the two lowercase
\* hexadecimal digits of the k-th byte; no output line holds more than 12
\* entries; and the number printed for <name>_len is L.
C4_ArrayMatchesData ==
    (prog = "xxd" /\ pc = "exit" /\ status = "ok") =>
        /\ Len(BodyInk) = 5 * Len(file)
        /\ \A k \in 1..Len(file) :
              LET e == SubSeq(BodyInk, 5 * k - 4, 5 * k) IN
              /\ e[1] = "0" /\ e[2] = "x" /\ e[5] = ","
              /\ e[3] \in DOMAIN HexValue /\ e[4] \in DOMAIN HexValue
              /\ 16 * HexValue[e[3]] + HexValue[e[4]] = file[k]
        /\ Count(ArrayBody, ",") = Len(file)
        /\ LinesHoldAtMost(ArrayBody, 12)
        /\ LenNumeral # <<>>
        /\ \A k \in 1..Len(LenNumeral) : LenNumeral[k] \in DecDigits
        /\ DecValue(LenNumeral) = Len(file)

\* C4 witness: a file of two full lines and one more byte, with a byte
\* below 16, was printed.
C4_Witness ==
    /\ prog = "xxd" /\ pc = "exit" /\ status = "ok"
    /\ Len(file) = 25 /\ file[1] = 9
    /\ Count(stdout, "\n") = 6

\* C5: given any number of arguments other than one, xxd.py opens and reads
\* no file, writes nothing to standard output, and exits with status 1.
C5_UsageError ==
    (prog = "xxd" /\ Len(argv) - 1 # 1) =>
        /\ nopen = 0
        /\ stdout = <<>>
        /\ pc \in {"args", "exit"}
        /\ (pc = "exit" => status = "SystemExit: 1")

\* C5 witness: xxd.py was given two arguments and has exited.
C5_Witness ==
    /\ prog = "xxd" /\ Len(argv) = 3 /\ pc = "exit"
    /\ status = "SystemExit: 1" /\ stderr # <<>>

----------------------------------------------------------------------------
\* mem_analyze.py

Fields == <<"MemTotal", "MemFree", "Buffers", "Cached", "SwapTotal", "SwapFree">>

IsSpace(c) == c \in {" ", "\t", "\n"}

\* s.lstrip()
RECURSIVE LStrip(_)
LStrip(s) == IF s # <<>> /\ IsSpace(Head(s)) THEN LStrip(Tail(s)) ELSE s

\* s.rstrip()
RECURSIVE RStrip(_)
RStrip(s) == IF s # <<>> /\ IsSpace(s[Len(s)])
             THEN RStrip(SubSeq(s, 1, Len(s) - 1)) ELSE s

\* s.strip()
Strip(s) == RStrip(LStrip(s))

\* s.split(sep): the pieces of s between all occurrences of sep
RECURSIVE Split(_, _)
Split(s, sep) ==
    IF \E k \in 1..Len(s) : s[k] = sep
    THEN LET p == CHOOSE k \in 1..Len(s) :
                      s[k] = sep /\ \A j \in 1..(k - 1) : s[j] # sep
         IN <<SubSeq(s, 1, p - 1)>> \o Split(SubSeq(s, p + 1, Len(s)), sep)
    ELSE <<s>>

\* for line in f: the lines of a text, each with its line end
RECURSIVE FileLines(_)
FileLines(t) ==
    IF t = <<>> THEN <<>>
    ELSE IF \E k \in 1..Len(t) : t[k] = "\n"
    THEN LET p == CHOOSE k \in 1..Len(t) :
                      t[k] = "\n" /\ \A j \in 1..(k - 1) : t[j] # "\n"
         IN <<SubSeq(t, 1, p)>> \o FileLines(SubSeq(t, p + 1, Len(t)))
    ELSE <<t>>

\* Mutant of BuildDict: the first of several lines with one key wins.
RECURSIVE BuildDictFirst(_)
BuildDictFirst(pairs) ==
    IF pairs = <<>> THEN <<>>
    ELSE LET rest == BuildDictFirst(SubSeq(pairs, 1, Len(pairs) - 1))
             last == pairs[Len(pairs)]
         IN [k \in DOMAIN rest \cup {last[1]} |->
                IF k \in DOMAIN rest THEN rest[k] ELSE last[2]]

\* {key: value for (key, value) in pairs}: a later pair replaces an earlier
\* one with the same key
RECURSIVE BuildDict(_)
BuildDict(pairs) ==
    IF pairs = <<>> THEN <<>>
    ELSE LET rest == BuildDict(SubSeq(pairs, 1, Len(pairs) - 1))
             last == pairs[Len(pairs)]
         IN [k \in DOMAIN rest \cup {last[1]} |->
                IF k = last[1] THEN last[2] ELSE rest[k]]

\* dict.get(key, default)
Get(dict, key, default) == IF key \in DOMAIN dict THEN dict[key] ELSE default

\* with open('/proc/meminfo') as f:
MemOpen ==
    /\ prog = "mem" /\ pc = "open"
    /\ IF ~exists
       THEN Fail("FileNotFoundError") /\ UNCHANGED nopen
       ELSE nopen' = nopen + 1 /\ pc' = "read" /\ UNCHANGED status
    /\ UNCHANGED <<envVars, histVars, stampVars, xxdVars, memVars, outVars,
                   file>>

\* lines = [line.strip() for line in f]
MemRead ==
    /\ prog = "mem" /\ pc = "read"
    /\ lines' = [k \in 1..Len(FileLines(meminfoFile)) |->
                    Strip(FileLines(meminfoFile)[k])]
    /\ pc' = "close"
    /\ UNCHANGED <<envVars, histVars, stampVars, xxdVars, meminfo, fieldIdx,
                   outVars, file, nopen, status>>

\* leaving the with block closes f
MemClose ==
    /\ prog = "mem" /\ pc = "close"
    /\ nopen' = nopen - 1
    /\ pc' = "parse"
    /\ UNCHANGED <<envVars, histVars, stampVars, xxdVars, memVars, outVars,
                   file, status>>

\* meminfo = {key: value for (key, value) in [line.split(':') for line in lines]}
\* Unpacking a list that does not hold exactly two pieces raises ValueError.
MemParse ==
    /\ prog = "mem" /\ pc = "parse"
    /\ LET pieces == [k \in 1..Len(lines) |-> Split(lines[k], ":")] IN
       IF \E k \in 1..Len(pieces) : Len(pieces[k]) # 2
       THEN Fail("ValueError: unpack") /\ UNCHANGED meminfo
       ELSE /\ meminfo' = BuildDict(pieces)
            /\ pc' = "print"
            /\ UNCHANGED status
    /\ UNCHANGED <<envVars, histVars, stampVars, xxdVars, lines, fieldIdx,
                   outVars, file, nopen>>

\* for field in (...): print(f"{field}: {meminfo.get(field, '').strip()}")
\* One iteration; the script ends after the last one.
MemPrint ==
    /\ prog = "mem" /\ pc = "print"
    /\ stdout' = stdout \o <<Fields[fieldIdx], ":", " ">>
                        \o Strip(Get(meminfo, <<Fields[fieldIdx]>>, <<>>))
                        \o <<"\n">>
    /\ IF fieldIdx = Len(Fields)
       THEN status' = "ok" /\ pc' = "exit" /\ UNCHANGED fieldIdx
       ELSE fieldIdx' = fieldIdx + 1 /\ UNCHANGED <<status, pc>>
    /\ UNCHANGED <<envVars, histVars, stampVars, xxdVars, lines, meminfo,
                   stderr, file, nopen>>

\* The texts mem_analyze.py is run on.
RECURSIVE Rep(_, _)
Rep(s, n) == IF n = 0 THEN <<>> ELSE s \o Rep(s, n - 1)

\* "MemTotal: 1 kB", " MemTotal:2 ", "MemTotal :3", with c colons where
\* the examples have one.
Line(k, c, style) ==
    CASE style = 1 -> <<k>> \o Rep(<<":", " ", "1", " ", "kB">>, c)
      [] style = 2 -> <<" ", k>> \o Rep(<<":", "2", " ">>, c)
      [] style = 3 -> <<k, " ">> \o Rep(<<":", "3">>, c)

LineSet ==
    {<<>>}
    \cup {Line(k, c, style) : k \in {"MemTotal", "SwapFree"},
                              c \in 1..MaxColons, style \in 1..3}
    \cup {Line("Zed", c, 1) : c \in 0..MaxColons}

RECURSIVE Join(_)
Join(ls) == IF ls = <<>> THEN <<>>
            ELSE Head(ls) \o <<"\n">> \o Join(Tail(ls))

\* Texts of at most MaxLines lines; the last line may lack its line end.
TextSet ==
    LET whole == {Join(ls) : ls \in UNION {[1..n -> LineSet] : n \in 0..MaxLines}}
    IN whole \cup {SubSeq(t, 1, Len(t) - 1) : t \in whole \ {<<>>}}

InitMem ==
    /\ prog = "mem" /\ pc = "open" /\ status = "running"
    /\ argv = <<"mem_analyze.py">>
    /\ exists \in BOOLEAN
    /\ meminfoFile \in (IF exists THEN TextSet ELSE {<<>>})
    /\ file = <<>> /\ before = <<>>
    /\ nopen = 0 /\ stdout = <<>> /\ stderr = <<>>
    /\ msg = [is |-> 0, should |-> 0]
    /\ run = 1 /\ done = <<>>
    /\ sz = 0 /\ left = 0 /\ sb = 0 /\ d = <<>>
    /\ name = <<>> /\ data = <<>> /\ i = 0
    /\ lines = <<>> /\ meminfo = <<>> /\ fieldIdx = 1

NextMem == MemOpen \/ MemRead \/ MemClose \/ MemParse \/ MemPrint

SpecMem == InitMem /\ [][NextMem]_vars

----------------------------------------------------------------------------
\* Any of the three scripts.

Init == InitStamp \/ InitXxd \/ InitMem

Next == NextStamp \/ NextXxd \/ NextMem

Spec == Init /\ [][Next]_vars

----------------------------------------------------------------------------
\* The lines of /proc/meminfo as a reader of the text sees them.

LineEnds == {q \in 1..Len(meminfoFile) : meminfoFile[q] = "\n"}

\* The text after the last line end counts as a line when it is not empty.
NumSrcLines ==
    Cardinality(LineEnds)
    + (IF meminfoFile # <<>> /\ meminfoFile[Len(meminfoFile)] # "\n"
       THEN 1 ELSE 0)

\* The position of the j-th line end.
LineEnd(j) == CHOOSE q \in LineEnds : Cardinality({r \in LineEnds : r < q}) = j - 1

\* The j-th line, without its line end.
SrcLine(j) ==
    SubSeq(meminfoFile,
           IF j = 1 THEN 1 ELSE LineEnd(j - 1) + 1,
           IF j <= Cardinality(LineEnds) THEN LineEnd(j) - 1
           ELSE Len(meminfoFile))

Least(S) == CHOOSE m \in S : \A x \in S : m <= x

\* The positions of a text that hold something other than a blank.
InkAt(t) == {q \in 1..Len(t) : t[q] \notin {" ", "\t", "\n"}}

\* A text without the blanks around it.
Trimmed(t) == IF InkAt(t) = {} THEN <<>>
              ELSE SubSeq(t, Least(InkAt(t)), Greatest(InkAt(t)))

\* The key of a line: the text before its first colon, the blanks that
\* begin the line apart.
KeyOf(l) ==
    LET k == SubSeq(l, 1, FirstPos(l, ":") - 1) IN
    IF InkAt(k) = {} THEN <<>> ELSE SubSeq(k, Least(InkAt(k)), Len(k))

\* The trimmed value of a line: the text after its first colon, trimmed.
ValueOf(l) == Trimmed(SubSeq(l, FirstPos(l, ":") + 1, Len(l)))

WellFormedSource == \A j \in 1..NumSrcLines : Count(SrcLine(j), ":") = 1

\* C6 as stated: mem_analyze.py fails only when /proc/meminfo cannot be
\* opened or some line holds no colon at all; otherwise every line is cut
\* at its first colon and its key is in the mapping.
C6_SplitOnFirstColon ==
    (prog = "mem" /\ pc = "exit") =>
        IF ~exists THEN status = "FileNotFoundError"
        ELSE IF \E j \in 1..NumSrcLines : Count(SrcLine(j), ":") = 0
        THEN status = "ValueError: unpack"
        ELSE /\ status = "ok"
             /\ \A j \in 1..NumSrcLines : KeyOf(SrcLine(j)) \in DOMAIN meminfo

\* What the claim says is printed for field f.
ExpectedLine(f) ==
    LET js == {j \in 1..NumSrcLines : KeyOf(SrcLine(j)) = <<f>>} IN
    <<f, ":", " ">>
    \o (IF js = {} THEN <<>> ELSE ValueOf(SrcLine(Greatest(js))))
    \o <<"\n">>

C8_OneFileAtATime ==
    /\ nopen \in {0, 1}
    /\ (pc = "exit" => nopen = 0)

\* C8 witness: stamp.py has appended to the image, read it back, and ended
\* with the signature error.
C8_Witness ==
    /\ prog = "stamp" /\ pc = "exit" /\ status = ErrSig /\ nopen = 0
    /\ Len(file) > Len(before) /\ d # <<>>

\* C10: when xxd.py or mem_analyze.py ends with a fatal error, nothing has
\* been written to standard output; whatever is written is written after
\* the file is read, closed and (mem_analyze.py) parsed.
C10_NoOutputOnError ==
    /\ (prog \in {"xxd", "mem"} /\ pc = "exit" /\ status # "ok")
            => stdout = <<>>
    /\ (prog = "xxd" /\ stdout # <<>>)
            => (nopen = 0 /\ pc \in {"loop", "brace", "len", "exit"})
    /\ (prog = "mem" /\ stdout # <<>>)
            => (nopen = 0 /\ pc \in {"print", "exit"})

\* C10 witness: mem_analyze.py met a line without a colon after a good one.
C10_Witness ==
    /\ prog = "mem" /\ pc = "exit" /\ status = "ValueError: unpack"
    /\ NumSrcLines = 2 /\ Count(SrcLine(1), ":") = 1
    /\ Count(SrcLine(2), ":") = 0
    /\ stdout = <<>>

====
